---- MODULE Spec2Model ----
(***************************************************************************)
(* SEO_Agent: the heuristic SEO analyzer (utils/seo_analyzer.py), the      *)
(* advisory agent (agents/seo_agent.py), the fetch collaborator            *)
(* (utils/web_scraper.py) and the session handling of app.py.              *)
(*                                                                         *)
(* Representation.  Strings that the code only measures and compares       *)
(* (title, meta description, issue messages) are TLA+ strings.  Strings    *)
(* the code scans character by character (content, link text, the          *)
(* backend's raw reply) are sequences of one-character strings.  Floats    *)
(* are kept as exact fractions: a percentage rounded to 1 decimal is an    *)
(* integer number of tenths, a response time is an integer number of       *)
(* hundredths of a second.                                                 *)
(***************************************************************************)
EXTENDS Integers, Sequences, FiniteSets, TLC

VARIABLES
    page_data,          \* st.session_state.page_data
    seo_analysis,       \* st.session_state.seo_analysis
    recommendations,    \* st.session_state.recommendations
    chat_history,       \* st.session_state.chat_history
    analysis_complete,  \* st.session_state.analysis_complete
    model,              \* st.session_state.seo_agent.model
    http,               \* the backend exchanges of the last handler, in order
    run,                \* the last script run of app.py: its event, the operations
                        \* it invoked in order, the error it displayed or raised
    DEFAULT_MODEL       \* app.py's DEFAULT_MODEL, os.getenv("DEFAULT_MODEL")

vars == <<page_data, seo_analysis, recommendations, chat_history,
          analysis_complete, model, http, run, DEFAULT_MODEL>>

None == [py |-> "None"]
ZeroDivisionError == [raised |-> "ZeroDivisionError"]

(***************************************************************************)
(* Bounds of the model.                                                    *)
(***************************************************************************)
Margin == 1         \* lengths and counts this close to a threshold are drawn
MaxHeadings == 2    \* headings per level in the drawn header mappings

(***************************************************************************)
(* Python primitives.                                                      *)
(***************************************************************************)
Min(a, b) == IF a < b THEN a ELSE b
Max(a, b) == IF a > b THEN a ELSE b

\* c * n, the string of n copies of c
RECURSIVE Rep(_, _)
Rep(c, n) ==
    IF n = 0 THEN ""
    ELSE LET half == Rep(c, n \div 2)
         IN  IF n % 2 = 0 THEN half \o half ELSE half \o half \o c

Whitespace == {" ", "\t", "\n"}
Punctuation == {".", "!", "?"}

\* str.lower() on one character
LowerOf ==
    [c \in {"S", "E", "O", "P", "A", "G", "T", "X", "H", "M", "L"} |->
        CASE c = "S" -> "s" [] c = "E" -> "e" [] c = "O" -> "o"
          [] c = "P" -> "p" [] c = "A" -> "a" [] c = "G" -> "g"
          [] c = "T" -> "t" [] c = "X" -> "x" [] c = "H" -> "h"
          [] c = "M" -> "m" [] c = "L" -> "l"]
lower(s) == [i \in 1..Len(s) |-> IF s[i] \in DOMAIN LowerOf THEN LowerOf[s[i]] ELSE s[i]]

\* str.split(): the maximal runs of non-whitespace, given by where they start
split(s) ==
    {i \in 1..Len(s) : s[i] \notin Whitespace /\ (i = 1 \/ s[i - 1] \in Whitespace)}

\* re.split(r'[.!?]+', s): one piece more than there are runs of punctuation
re_split_len(s) ==
    1 + Cardinality({i \in 1..Len(s) :
                        s[i] \in Punctuation /\ (i = 1 \/ s[i - 1] \notin Punctuation)})

\* str.strip() of a character sequence
strip(s) ==
    LET keep == {i \in 1..Len(s) : s[i] \notin Whitespace}
    IN  IF keep = {} THEN <<>>
        ELSE LET lo == CHOOSE i \in keep : \A j \in keep : i <= j
                 hi == CHOOSE i \in keep : \A j \in keep : i >= j
             IN  SubSeq(s, lo, hi)

\* str.count(w): leftmost non-overlapping occurrences of w in s
OccursAt(s, w, i) == i + Len(w) - 1 <= Len(s) /\ \A k \in 1..Len(w) : s[i + k - 1] = w[k]
RECURSIVE CountFrom(_, _, _)
CountFrom(occ, wlen, from) ==
    LET rest == {i \in occ : i >= from}
    IN  IF rest = {} THEN 0
        ELSE LET first == CHOOSE i \in rest : \A j \in rest : i <= j
             IN  1 + CountFrom(occ, wlen, first + wlen)
count(s, w) == CountFrom({i \in 1..Len(s) : OccursAt(s, w, i)}, Len(w), 1)

\* round(num / den * scale): the nearest integer, an exact tie going to the
\* even neighbour (Python rounds the binary value, which is the same
\* wherever the quotient is not an exact decimal tie)
round(num, den, scale) ==
    LET n == num * scale
        q == n \div den
        r == n % den
    IN  IF 2 * r > den \/ (2 * r = den /\ q % 2 = 1) THEN q + 1 ELSE q

\* f"{x:.1f}" and f"{x:.2f}" of a value held in tenths / hundredths
fmt1(tenths) == ToString(tenths \div 10) \o "." \o ToString(tenths % 10)
fmt2(hundredths) ==
    ToString(hundredths \div 100) \o "." \o ToString((hundredths % 100) \div 10)
        \o ToString(hundredths % 10)

(***************************************************************************)
(* utils/seo_analyzer.py                                                   *)
(***************************************************************************)
\* dict.get(key, default)
Get(d, key, default) == IF key \in DOMAIN d THEN d[key] ELSE default

_get_basic_metrics(pd) ==
    [word_count |-> Cardinality(split(pd.content)),
     title_length |-> Len(pd.title),
     description_length |-> Len(pd.meta_description),
     image_count |-> Len(pd.images),
     link_count |-> Len(pd.links),
     response_time |-> pd.response_time]

\* _analyze_title with the lower length test off by one
_analyze_title_le(title) ==
    LET length == Len(title)
        lengthIssue ==
            IF length <= 50
            THEN <<"Title too short (" \o ToString(length) \o " chars). Aim for 50-60 characters.">>
            ELSE IF length > 60
            THEN <<"Title too long (" \o ToString(length) \o " chars). Aim for 50-60 characters.">>
            ELSE <<>>
        missing == IF title = "" THEN <<"Missing title tag">> ELSE <<>>
    IN  [current |-> title,
         length |-> length,
         optimal |-> (50 <= length /\ length <= 60),
         issues |-> lengthIssue \o missing]

_analyze_title(title) ==
    LET length == Len(title)
        lengthIssue ==
            IF length < 50
            THEN <<"Title too short (" \o ToString(length) \o " chars). Aim for 50-60 characters.">>
            ELSE IF length > 60
            THEN <<"Title too long (" \o ToString(length) \o " chars). Aim for 50-60 characters.">>
            ELSE <<>>
        missing == IF title = "" THEN <<"Missing title tag">> ELSE <<>>
    IN  [current |-> title,
         length |-> length,
         optimal |-> (50 <= length /\ length <= 60),
         issues |-> lengthIssue \o missing]

\* _analyze_meta_description without the sentinel comparison
_analyze_meta_description_no_sentinel(description) ==
    LET length == Len(description)
        lengthIssue ==
            IF length < 120
            THEN <<"Description too short (" \o ToString(length)
                       \o " chars). Aim for 120-160 characters.">>
            ELSE IF length > 160
            THEN <<"Description too long (" \o ToString(length)
                       \o " chars). Aim for 120-160 characters.">>
            ELSE <<>>
        missing == IF description = "" THEN <<"Missing meta description">> ELSE <<>>
    IN  [current |-> description,
         length |-> length,
         optimal |-> (120 <= length /\ length <= 160),
         issues |-> lengthIssue \o missing]

_analyze_meta_description(description) ==
    LET length == Len(description)
        lengthIssue ==
            IF length < 120
            THEN <<"Description too short (" \o ToString(length)
                       \o " chars). Aim for 120-160 characters.">>
            ELSE IF length > 160
            THEN <<"Description too long (" \o ToString(length)
                       \o " chars). Aim for 120-160 characters.">>
            ELSE <<>>
        missing ==
            IF description = "" \/ description = "No meta description"
            THEN <<"Missing meta description">> ELSE <<>>
    IN  [current |-> description,
         length |-> length,
         optimal |-> (120 <= length /\ length <= 160),
         issues |-> lengthIssue \o missing]

common_words ==
    <<[name |-> "seo", chars |-> <<"s", "e", "o">>],
      [name |-> "website", chars |-> <<"w", "e", "b", "s", "i", "t", "e">>],
      [name |-> "page", chars |-> <<"p", "a", "g", "e">>],
      [name |-> "content", chars |-> <<"c", "o", "n", "t", "e", "n", "t">>],
      [name |-> "digital", chars |-> <<"d", "i", "g", "i", "t", "a", "l">>],
      [name |-> "marketing", chars |-> <<"m", "a", "r", "k", "e", "t", "i", "n", "g">>]>>

\* the keyword-density division without its guard
density_guard_absent(cnt) == cnt >= 0

\* the guard of the keyword-density division (line 95)
density_guard(cnt) == cnt > 0

_analyze_content(content) ==
    LET word_count == Cardinality(split(content))
        sentences == re_split_len(content)
        divisor == Max(sentences, 1)
        text_lower == lower(content)
        counts == [k \in 1..Len(common_words) |-> count(text_lower, common_words[k].chars)]
        divided == {k \in 1..Len(common_words) : density_guard(counts[k])}
        raises == divisor = 0 \/ (divided # {} /\ word_count = 0)
        avg_sentence_length == round(word_count, divisor, 10)      \* tenths
        shortIssue ==
            IF word_count < 300
            THEN <<"Content too short (" \o ToString(word_count)
                       \o " words). Aim for at least 300 words.">>
            ELSE <<>>
        longIssue ==
            IF word_count > 25 * divisor
            THEN <<"Sentences may be too long (avg: " \o fmt1(avg_sentence_length)
                       \o " words).">>
            ELSE <<>>
    IN  IF raises THEN ZeroDivisionError
        ELSE [word_count |-> word_count,
              avg_sentence_length |-> avg_sentence_length,
              keyword_density |->
                  [n \in {common_words[k].name : k \in divided} |->
                      LET k == CHOOSE j \in divided : common_words[j].name = n
                      IN  round(counts[k] * 100, word_count, 100)],  \* hundredths
              issues |-> shortIssue \o longIssue]

\* _analyze_headers with the multiple-H1 test off by one
_analyze_headers_ge(headers) ==
    LET h1_count == Len(Get(headers, "h1", <<>>))
        h1Issue ==
            IF h1_count = 0 THEN <<"Missing H1 tag">>
            ELSE IF h1_count >= 1
            THEN <<"Multiple H1 tags found (" \o ToString(h1_count) \o ")">>
            ELSE <<>>
        hierarchy ==
            IF h1_count = 0
               /\ \E i \in 2..6 : Len(Get(headers, "h" \o ToString(i), <<>>)) > 0
            THEN <<"Header hierarchy issue: Using H2+ without H1">>
            ELSE <<>>
    IN  [structure |->
             [k \in {"h" \o ToString(level) : level \in 1..6} |-> Len(Get(headers, k, <<>>))],
         issues |-> h1Issue \o hierarchy]

_analyze_headers(headers) ==
    LET h1_count == Len(Get(headers, "h1", <<>>))
        h1Issue ==
            IF h1_count = 0 THEN <<"Missing H1 tag">>
            ELSE IF h1_count > 1
            THEN <<"Multiple H1 tags found (" \o ToString(h1_count) \o ")">>
            ELSE <<>>
        hierarchy ==
            IF h1_count = 0
               /\ \E i \in 2..6 : Len(Get(headers, "h" \o ToString(i), <<>>)) > 0
            THEN <<"Header hierarchy issue: Using H2+ without H1">>
            ELSE <<>>
    IN  [structure |->
             [k \in {"h" \o ToString(level) : level \in 1..6} |-> Len(Get(headers, k, <<>>))],
         issues |-> h1Issue \o hierarchy]

\* _analyze_images taking a page without images as fully covered
_analyze_images_full(images) ==
    LET total_images == Len(images)
        images_with_alt == Cardinality({i \in 1..Len(images) : images[i].has_alt})
        alt_tenths == IF total_images > 0 THEN round(images_with_alt * 100, total_images, 10)
                      ELSE 1000
        below == total_images > 0 /\ images_with_alt * 100 < 90 * total_images
    IN  [total_images |-> total_images,
         images_with_alt |-> images_with_alt,
         alt_percentage |-> alt_tenths,
         issues |-> IF below
                    THEN <<"Only " \o fmt1(alt_tenths) \o "% of images have alt text">>
                    ELSE <<>>]

_analyze_images(images) ==
    LET total_images == Len(images)
        images_with_alt == Cardinality({i \in 1..Len(images) : images[i].has_alt})
        raises == total_images > 0 /\ total_images = 0  \* the division sits behind its guard
        \* alt_percentage, in tenths of a percent after rounding
        alt_tenths == IF total_images > 0 THEN round(images_with_alt * 100, total_images, 10)
                      ELSE 0
        below == total_images > 0 /\ images_with_alt * 100 < 90 * total_images
    IN  IF raises THEN ZeroDivisionError
        ELSE [total_images |-> total_images,
              images_with_alt |-> images_with_alt,
              alt_percentage |-> alt_tenths,
              issues |-> IF below
                         THEN <<"Only " \o fmt1(alt_tenths) \o "% of images have alt text">>
                         ELSE <<>>]

_analyze_links(links) ==
    LET total_links == Len(links)
        internal_links == Cardinality({i \in 1..Len(links) : links[i].is_internal})
        external_links == total_links - internal_links
        empty_link_texts == Cardinality({i \in 1..Len(links) : strip(links[i].text) = <<>>})
        emptyIssue ==
            IF empty_link_texts > 0
            THEN <<ToString(empty_link_texts) \o " links with empty anchor text">>
            ELSE <<>>
        lowIssue ==
            IF total_links > 0 /\ internal_links * 100 < 20 * total_links
            THEN <<"Low internal linking ("
                       \o fmt1(round(internal_links * 100, total_links, 10)) \o "%)">>
            ELSE <<>>
    IN  [total_links |-> total_links,
         internal_links |-> internal_links,
         external_links |-> external_links,
         empty_link_texts |-> empty_link_texts,
         issues |-> emptyIssue \o lowIssue]

\* response_time is held in hundredths of a second
_analyze_technical(pd) ==
    [response_time |-> pd.response_time,
     issues |-> IF pd.response_time > 300
                THEN <<"Slow response time: " \o fmt2(pd.response_time) \o "s">>
                ELSE <<>>]

\* the scored categories with the last one forgotten
scored_categories_short ==
    <<"title_analysis", "meta_description_analysis", "content_analysis",
      "header_analysis", "image_analysis", "link_analysis">>

scored_categories ==
    <<"title_analysis", "meta_description_analysis", "content_analysis",
      "header_analysis", "image_analysis", "link_analysis", "technical_seo">>

\* the deduction loop taking 3 points per issue
RECURSIVE deduct_three(_, _, _)
deduct_three(analysis, score, k) ==
    IF k > Len(scored_categories) THEN score
    ELSE IF scored_categories[k] \in DOMAIN analysis
    THEN deduct_three(analysis, score - Len(analysis[scored_categories[k]].issues) * 3, k + 1)
    ELSE deduct_three(analysis, score, k + 1)

RECURSIVE deduct(_, _, _)
deduct(analysis, score, k) ==
    IF k > Len(scored_categories) THEN score
    ELSE IF scored_categories[k] \in DOMAIN analysis
    THEN deduct(analysis, score - Len(analysis[scored_categories[k]].issues) * 2, k + 1)
    ELSE deduct(analysis, score, k + 1)

\* the content bonus with a strict comparison
content_bonus_gt(analysis) == IF analysis.content_analysis.word_count > 300 THEN 5 ELSE 0

content_bonus(analysis) == IF analysis.content_analysis.word_count >= 300 THEN 5 ELSE 0
\* alt_percentage is held in tenths of a percent
image_bonus(analysis) == IF analysis.image_analysis.alt_percentage >= 900 THEN 5 ELSE 0

\* _calculate_seo_score without the upper clamp
_calculate_seo_score_unclamped(analysis) ==
    LET score == deduct(analysis, 100, 1) + content_bonus(analysis) + image_bonus(analysis)
    IN  Max(0, score)

_calculate_seo_score(analysis) ==
    LET score == deduct(analysis, 100, 1) + content_bonus(analysis) + image_bonus(analysis)
    IN  Max(0, Min(100, score))

analyze_page(pd) ==
    LET content_analysis == _analyze_content(pd.content)
        analysis ==
            [basic_metrics |-> _get_basic_metrics(pd),
             title_analysis |-> _analyze_title(pd.title),
             meta_description_analysis |-> _analyze_meta_description(pd.meta_description),
             content_analysis |-> content_analysis,
             header_analysis |-> _analyze_headers(pd.headers),
             image_analysis |-> _analyze_images(pd.images),
             link_analysis |-> _analyze_links(pd.links),
             technical_seo |-> _analyze_technical(pd),
             score |-> 0]
    IN  IF content_analysis = ZeroDivisionError \/ analysis.image_analysis = ZeroDivisionError
        THEN ZeroDivisionError
        ELSE [analysis EXCEPT !.score = _calculate_seo_score(analysis)]

(***************************************************************************)
(* The PageData records the analyzer is driven with.                       *)
(***************************************************************************)
Repeat(unit, n) == [i \in 1..(n * Len(unit)) |-> unit[((i - 1) % Len(unit)) + 1]]

Near(lo, hi) == (lo - Margin)..(hi + Margin)

TitleInputs ==
    {Rep("t", n) : n \in {0, 55} \cup Near(50, 50) \cup Near(60, 60)} \cup {"No title found"}
DescriptionInputs ==
    {Rep("d", n) : n \in {0} \cup Near(120, 120) \cup Near(160, 160)}
        \cup {"No meta description"}
ContentInputs ==
    {<<>>, <<" ", "\t", "\n">>, <<"S", "E", "O">>,
     <<"w", "e", "b", "s", "i", "t", "e", "!", "?", " ", "P", "a", "g", "e", "s", " ",
       "s", "e", "o", "s", "e", "o">>}
        \cup {Repeat(<<"w", " ">>, n) : n \in Near(25, 25) \cup Near(300, 300)}
        \cup {Repeat(<<"w", ".", " ">>, n) : n \in Near(300, 300)}
Levels == {"h1", "h2", "h3", "h4", "h5", "h6"}
HeaderInputs ==
    {[k \in keys |-> Repeat(<<"a">>, IF k = "h1" THEN n1 ELSE n2)] :
        keys \in {{}, {"h1"}, {"h3"}, {"h1", "h6"}, Levels},
        n1 \in 0..MaxHeadings, n2 \in 0..MaxHeadings}
Image(has) == [src |-> "i.png", alt |-> IF has THEN "x" ELSE "", has_alt |-> has]
Images(with, total) == [i \in 1..total |-> Image(i <= with)]
ImageInputs ==
    {Images(0, 0), Images(0, 1), Images(1, 1)}
        \cup {Images(w, 10) : w \in (9 - Margin)..9}
        \cup {Images(w, 20) : w \in (18 - Margin)..18}
        \* 188 of 209 is 89.952...%: below 90, and 90.0 once rounded
        \cup {Images(w, 209) : w \in (188 - Margin)..189}
Link(text, internal) == [text |-> text, url |-> "https://example.com/a", is_internal |-> internal]
Links(internal, total, text) == [i \in 1..total |-> Link(text, i <= internal)]
LinkInputs ==
    {Links(i, 5, t) : i \in (1 - Margin)..(1 + Margin), t \in {<<"a">>, <<" ">>, <<>>}}
        \cup {<<>>, <<Link(<<>>, FALSE)>>, <<Link(<<"a">>, TRUE), Link(<<"\t", " ">>, TRUE)>>}
ResponseTimeInputs == {0} \cup Near(300, 300)

Page(title, description, content, headers, images, links, rt) ==
    [url |-> "https://example.com",
     title |-> title,
     meta_description |-> description,
     meta_keywords |-> "No meta keywords",
     headers |-> headers,
     content |-> content,
     links |-> links,
     images |-> images,
     status_code |-> 200,
     response_time |-> rt]

\* for each field one choice without any issue and one with the most issues
\* (for the content also one that has an issue and earns the bonus)
GoodBad ==
    [title |-> {Rep("t", 55), ""},
     description |-> {Rep("d", 120), ""},
     content |-> {Repeat(<<"w", ".", " ">>, 300), Repeat(<<"w", " ">>, 26),
                  Repeat(<<"w", " ">>, 300)},
     headers |-> {[k \in Levels |-> <<"a">>], [k \in {"h3"} |-> <<"a">>]},
     images |-> {Images(1, 1), Images(0, 1)},
     links |-> {<<>>, <<Link(<<>>, FALSE)>>},
     rt |-> {300, 301}]

EmptyPage == Page("", "", <<>>, <<>>, <<>>, <<>>, 0)

\* every good/bad combination, and around each of them every drawn value of
\* one field at a time
PageInputs ==
    {EmptyPage}
    \cup {Page(t, d, c, h, i, l, r) :
            t \in GoodBad.title, d \in GoodBad.description, c \in GoodBad.content,
            h \in GoodBad.headers, i \in GoodBad.images, l \in GoodBad.links,
            r \in GoodBad.rt}
    \cup UNION {
        {Page(t, b.d, b.c, b.h, b.i, b.l, b.r) : t \in TitleInputs}
        \cup {Page(b.t, d, b.c, b.h, b.i, b.l, b.r) : d \in DescriptionInputs}
        \cup {Page(b.t, b.d, c, b.h, b.i, b.l, b.r) : c \in ContentInputs}
        \cup {Page(b.t, b.d, b.c, h, b.i, b.l, b.r) : h \in HeaderInputs}
        \cup {Page(b.t, b.d, b.c, b.h, i, b.l, b.r) : i \in ImageInputs}
        \cup {Page(b.t, b.d, b.c, b.h, b.i, l, b.r) : l \in LinkInputs}
        \cup {Page(b.t, b.d, b.c, b.h, b.i, b.l, r) : r \in ResponseTimeInputs}
        : b \in {[t |-> Rep("t", 55), d |-> Rep("d", 120), c |-> <<"w">>,
                  h |-> [k \in {"h1"} |-> <<"a">>], i |-> <<>>, l |-> <<>>, r |-> 0],
                 [t |-> "", d |-> "", c |-> <<>>,
                  h |-> <<>>, i |-> <<>>, l |-> <<>>, r |-> 0]}}

(***************************************************************************)
(* The analyzer on its own: a caller holds a PageData record and calls     *)
(* SEOAnalyzer.analyze_page on it.                                         *)
(***************************************************************************)
InitAnalyzer ==
    /\ page_data \in PageInputs
    /\ seo_analysis = None
    /\ recommendations = None
    /\ chat_history = <<>>
    /\ analysis_complete = FALSE
    /\ model = "gemma3:latest"
    /\ http = <<>>
    /\ run = None
    /\ DEFAULT_MODEL = "gemma3:latest"

AnalyzePage ==
    /\ seo_analysis = None
    /\ seo_analysis' = analyze_page(page_data)
    /\ UNCHANGED <<page_data, recommendations, chat_history, analysis_complete, model, http,
                   run, DEFAULT_MODEL>>

NextAnalyzer == AnalyzePage

SpecAnalyzer == InitAnalyzer /\ [][NextAnalyzer]_vars

(***************************************************************************)
(* agents/seo_agent.py                                                     *)
(*                                                                         *)
(* The backend is the environment: every HTTP exchange has an outcome the  *)
(* agent does not control, a status with a body or a raised exception.     *)
(* http records the exchanges of one call of the agent, in order.          *)
(***************************************************************************)
ModelNames == {"gemma3:latest", "llama3:8b"}

Status(code) == [status |-> code]
Raised(name) == [exception |-> name]
TagsOK(names) == [status |-> 200, models |-> names]
GenerateOK(text) == [status |-> 200, response |-> text]
IsOK(res) == "status" \in DOMAIN res /\ res.status = 200

\* requests.get(f"{self.base_url}/api/tags", timeout=...)
GetTags(timeout, res) == [request |-> "GET /api/tags", timeout |-> timeout, result |-> res]
\* requests.post(f"{self.base_url}/api/generate", json={"model": ..., "prompt": ...}, timeout=60)
PostGenerate(m, prompt, res) ==
    [request |-> "POST /api/generate", model |-> m, prompt |-> prompt, timeout |-> 60,
     result |-> res]

check_ollama_running(res) == IsOK(res)

\* the list of names, None on another status (no return is reached), [] on an
\* exception
NoneReturned == [returned |-> "None"]
ListReturned(names) == [returned |-> "list", names |-> names]
get_available_models(res) ==
    IF IsOK(res) THEN ListReturned(res.models)
    ELSE IF "status" \in DOMAIN res THEN NoneReturned
    ELSE ListReturned(<<>>)
\* not available_models
falsy(value) == value = NoneReturned \/ value = ListReturned(<<>>)

\* the text of the reply, "" on another status or an exception
generate_with_ollama(res) == IF IsOK(res) THEN res.response ELSE <<>>

\* the keys of an analysis record in insertion order (analyze_page)
analysis_keys ==
    <<"basic_metrics", "title_analysis", "meta_description_analysis", "content_analysis",
      "header_analysis", "image_analysis", "link_analysis", "technical_seo", "score">>

\* isinstance(data, dict) and 'issues' in data, for the value under a key
has_issues(analysis, key) ==
    key \in DOMAIN analysis /\ key # "score" /\ "issues" \in DOMAIN analysis[key]

\* category.replace('_analysis', '').replace('_', ' ').title()
cat_name ==
    [title_analysis |-> "Title", meta_description_analysis |-> "Meta Description",
     content_analysis |-> "Content", header_analysis |-> "Header",
     image_analysis |-> "Image", link_analysis |-> "Link", technical_seo |-> "Technical Seo"]

Prefixed(label, issues) == [i \in 1..Len(issues) |-> label \o ": " \o issues[i]]

RECURSIVE prompt_issues(_, _)
prompt_issues(analysis, k) ==
    IF k > Len(analysis_keys) THEN <<>>
    ELSE (IF has_issues(analysis, analysis_keys[k])
          THEN Prefixed(cat_name[analysis_keys[k]], analysis[analysis_keys[k]].issues)
          ELSE <<>>) \o prompt_issues(analysis, k + 1)

\* the values interpolated into the prompt text
_create_analysis_prompt(pd, analysis) ==
    [url |-> pd.url,
     title |-> pd.title,
     title_length |-> Len(pd.title),
     meta_description |-> pd.meta_description,
     meta_description_length |-> Len(pd.meta_description),
     word_count |-> IF "content_analysis" \in DOMAIN analysis
                    THEN analysis.content_analysis.word_count ELSE 0,
     score |-> IF "score" \in DOMAIN analysis THEN analysis.score ELSE 0,
     issues |-> prompt_issues(analysis, 1)]

\* issues.extend(data['issues'][:3]) over the items of the analysis
RECURSIVE fallback_issues(_, _)
fallback_issues(analysis, k) ==
    IF k > Len(analysis_keys) THEN <<>>
    ELSE (IF has_issues(analysis, analysis_keys[k])
          THEN LET issues == analysis[analysis_keys[k]].issues
               IN  SubSeq(issues, 1, Min(3, Len(issues)))
          ELSE <<>>) \o fallback_issues(analysis, k + 1)

\* the defaults without the one on content length
default_recommendations_pair ==
    <<[title |-> "Optimize Title Tag",
       description |-> "Ensure title is 50-60 characters with primary keyword",
       priority |-> "high"],
      [title |-> "Improve Meta Description",
       description |-> "Write compelling meta description of 120-160 characters",
       priority |-> "high"]>>

default_recommendations ==
    <<[title |-> "Optimize Title Tag",
       description |-> "Ensure title is 50-60 characters with primary keyword",
       priority |-> "high"],
      [title |-> "Improve Meta Description",
       description |-> "Write compelling meta description of 120-160 characters",
       priority |-> "high"],
      [title |-> "Enhance Content",
       description |-> "Aim for at least 300 words of quality, relevant content",
       priority |-> "medium"]>>

\* _generate_fallback_recommendations with two long-term strategies
_generate_fallback_recommendations_two_strategies(analysis) ==
    LET issues == fallback_issues(analysis, 1)
        taken == SubSeq(issues, 1, Min(5, Len(issues)))
    IN  [summary |->
             "Based on technical SEO analysis, here are the key recommendations for improvement.",
         recommendations |->
             IF issues # <<>>
             THEN [i \in 1..Len(taken) |->
                      [title |-> "Address Issue " \o ToString(i),
                       description |-> taken[i],
                       priority |-> IF i - 1 < 2 THEN "high"
                                    ELSE IF i - 1 < 4 THEN "medium" ELSE "low"]]
             ELSE default_recommendations,
         quick_wins |->
             <<"Fix meta tags if needed", "Add alt text to images without it",
               "Ensure fast page loading">>,
         long_term_strategies |->
             <<"Regular content updates and optimization", "Build quality backlinks">>]

\* _generate_fallback_recommendations over all the issues: enumerate(issues)
_generate_fallback_recommendations_unlimited(analysis) ==
    LET issues == fallback_issues(analysis, 1)
    IN  [summary |->
             "Based on technical SEO analysis, here are the key recommendations for improvement.",
         recommendations |->
             IF issues # <<>>
             THEN [i \in 1..Len(issues) |->
                      [title |-> "Address Issue " \o ToString(i),
                       description |-> issues[i],
                       priority |-> IF i - 1 < 2 THEN "high"
                                    ELSE IF i - 1 < 4 THEN "medium" ELSE "low"]]
             ELSE default_recommendations,
         quick_wins |->
             <<"Fix meta tags if needed", "Add alt text to images without it",
               "Ensure fast page loading">>,
         long_term_strategies |->
             <<"Regular content updates and optimization", "Build quality backlinks",
               "Monitor SEO performance regularly">>]

_generate_fallback_recommendations(analysis) ==
    LET issues == fallback_issues(analysis, 1)
        taken == SubSeq(issues, 1, Min(5, Len(issues)))
    IN  [summary |->
             "Based on technical SEO analysis, here are the key recommendations for improvement.",
         recommendations |->
             IF issues # <<>>
             THEN [i \in 1..Len(taken) |->
                      [title |-> "Address Issue " \o ToString(i),
                       description |-> taken[i],
                       priority |-> IF i - 1 < 2 THEN "high"
                                    ELSE IF i - 1 < 4 THEN "medium" ELSE "low"]]
             ELSE default_recommendations,
         quick_wins |->
             <<"Fix meta tags if needed", "Add alt text to images without it",
               "Ensure fast page loading">>,
         long_term_strategies |->
             <<"Regular content updates and optimization", "Build quality backlinks",
               "Monitor SEO performance regularly">>]

(***************************************************************************)
(* json.loads, on texts without backslashes, digits and the words true,    *)
(* false and null: objects, arrays and strings.                            *)
(***************************************************************************)
\* the str made of the characters s[lo..hi]
RECURSIVE Join(_, _, _)
Join(s, lo, hi) ==
    IF lo > hi THEN ""
    ELSE IF lo = hi THEN s[lo]
    ELSE LET mid == (lo + hi) \div 2 IN Join(s, lo, mid) \o Join(s, mid + 1, hi)

First(S) == CHOOSE i \in S : \A j \in S : i <= j
Last(S) == CHOOSE i \in S : \A j \in S : i >= j

Fail == [ok |-> FALSE]
Parsed(val, pos) == [ok |-> TRUE, val |-> val, pos |-> pos]
At(s, i, c) == i <= Len(s) /\ s[i] = c

skip_ws(s, i) ==
    LET rest == {j \in i..Len(s) : s[j] \notin {" ", "\t", "\n", "\r"}}
    IN  IF rest = {} THEN Len(s) + 1 ELSE First(rest)

\* s[i] is the opening quote; a raw control character ends the parse
parse_string(s, i) ==
    LET closes == {j \in (i + 1)..Len(s) : s[j] = "\""}
    IN  IF closes = {} THEN Fail
        ELSE LET j == First(closes)
             IN  IF \E k \in (i + 1)..(j - 1) : s[k] \in {"\t", "\n", "\r"} THEN Fail
                 ELSE Parsed(Join(s, i + 1, j - 1), j + 1)

\* dict(pairs): a later pair with the same key wins
DictOf(pairs) ==
    [k \in {pairs[n][1] : n \in 1..Len(pairs)} |->
        pairs[Last({n \in 1..Len(pairs) : pairs[n][1] = k})][2]]

RECURSIVE parse_value(_, _)
RECURSIVE parse_members(_, _, _)
RECURSIVE parse_items(_, _, _)
parse_value(s, i) ==
    IF At(s, i, "\"") THEN parse_string(s, i)
    ELSE IF At(s, i, "{")
    THEN LET j == skip_ws(s, i + 1)
         IN  IF At(s, j, "}") THEN Parsed(<<>>, j + 1) ELSE parse_members(s, j, <<>>)
    ELSE IF At(s, i, "[")
    THEN LET j == skip_ws(s, i + 1)
         IN  IF At(s, j, "]") THEN Parsed(<<>>, j + 1) ELSE parse_items(s, j, <<>>)
    ELSE Fail

parse_members(s, i, acc) ==
    IF ~At(s, i, "\"") THEN Fail
    ELSE LET key == parse_string(s, i)
         IN  IF ~key.ok THEN Fail
             ELSE LET colon == skip_ws(s, key.pos)
                  IN  IF ~At(s, colon, ":") THEN Fail
                      ELSE LET v == parse_value(s, skip_ws(s, colon + 1))
                           IN  IF ~v.ok THEN Fail
                               ELSE LET e == skip_ws(s, v.pos)
                                        pairs == Append(acc, <<key.val, v.val>>)
                                    IN  IF At(s, e, "}") THEN Parsed(DictOf(pairs), e + 1)
                                        ELSE IF At(s, e, ",")
                                        THEN parse_members(s, skip_ws(s, e + 1), pairs)
                                        ELSE Fail

parse_items(s, i, acc) ==
    LET v == parse_value(s, i)
    IN  IF ~v.ok THEN Fail
        ELSE LET e == skip_ws(s, v.pos)
                 items == Append(acc, v.val)
             IN  IF At(s, e, "]") THEN Parsed(items, e + 1)
                 ELSE IF At(s, e, ",") THEN parse_items(s, skip_ws(s, e + 1), items)
                 ELSE Fail

\* ok with the value, or not ok: json.JSONDecodeError
json_loads(s) ==
    LET v == parse_value(s, skip_ws(s, 1))
    IN  IF v.ok /\ skip_ws(s, v.pos) = Len(s) + 1 THEN [ok |-> TRUE, val |-> v.val]
        ELSE Fail

\* re.search with a reluctant pattern: from the first "{" to the next "}"
json_match_reluctant(text) ==
    LET opens == {i \in 1..Len(text) : text[i] = "{"}
        closes == {i \in 1..Len(text) : text[i] = "}" /\ opens # {} /\ i > First(opens)}
    IN  IF opens # {} /\ closes # {}
        THEN [found |-> TRUE, group |-> SubSeq(text, First(opens), First(closes))]
        ELSE [found |-> FALSE]

\* re.search(r'\{[\s\S]*\}', text): from the first "{" to the last "}"
json_match(text) ==
    LET opens == {i \in 1..Len(text) : text[i] = "{"}
        closes == {i \in 1..Len(text) : text[i] = "}"}
    IN  IF opens # {} /\ closes # {} /\ First(opens) < Last(closes)
        THEN [found |-> TRUE, group |-> SubSeq(text, First(opens), Last(closes))]
        ELSE [found |-> FALSE]

simple_response(response_text) ==
    [summary |-> Join(response_text, 1, Min(300, Len(response_text))),
     recommendations |->
         <<[title |-> "Review Analysis",
            description |-> "Review the detailed analysis above",
            priority |-> "medium"]>>,
     quick_wins |-> <<"Check meta tags", "Review content">>,
     long_term_strategies |-> <<"Regular SEO audits", "Content optimization">>]

\* _parse_response answering a JSONDecodeError like a missing match
_parse_response_lenient(response_text) ==
    LET match == json_match(response_text)
    IN  IF match.found
        THEN LET data == json_loads(match.group)
             IN  IF data.ok THEN data.val
                 ELSE simple_response(response_text)
        ELSE simple_response(response_text)

_parse_response(response_text) ==
    LET match == json_match(response_text)
    IN  IF match.found
        THEN LET data == json_loads(match.group)
             IN  IF data.ok THEN data.val
                 ELSE _generate_fallback_recommendations(<<>>)
        ELSE simple_response(response_text)

\* analyze_and_advise going on to the generate call when no model is listed
analyze_and_advise_unlisted(agent_model, pd, analysis, running, listing, generated) ==
    LET ping == <<GetTags(5, running)>>
        listed == ping \o <<GetTags(10, listing)>>
        available_models == get_available_models(listing)
    IN  IF ~check_ollama_running(running)
        THEN [returned |-> _generate_fallback_recommendations(analysis),
              model |-> agent_model, http |-> ping]
        ELSE LET names == IF falsy(available_models) THEN <<>> ELSE available_models.names
                 known == \E i \in 1..Len(names) : names[i] = agent_model
                 used == IF known \/ names = <<>> THEN agent_model ELSE names[1]
                 prompt == _create_analysis_prompt(pd, analysis)
                 response == generate_with_ollama(generated)
             IN  [returned |-> IF response # <<>> THEN _parse_response(response)
                               ELSE _generate_fallback_recommendations(analysis),
                  model |-> used,
                  http |-> listed \o <<PostGenerate(used, prompt, generated)>>]

\* analyze_and_advise passing the first listed model to the generate call
\* without assigning it to self.model
analyze_and_advise_transient(agent_model, pd, analysis, running, listing, generated) ==
    LET ping == <<GetTags(5, running)>>
        listed == ping \o <<GetTags(10, listing)>>
        available_models == get_available_models(listing)
    IN  IF ~check_ollama_running(running)
        THEN [returned |-> _generate_fallback_recommendations(analysis),
              model |-> agent_model, http |-> ping]
        ELSE IF falsy(available_models)
        THEN [returned |-> _generate_fallback_recommendations(analysis),
              model |-> agent_model, http |-> listed]
        ELSE LET names == available_models.names
                 known == \E i \in 1..Len(names) : names[i] = agent_model
                 used == IF known THEN agent_model ELSE names[1]
                 prompt == _create_analysis_prompt(pd, analysis)
                 response == generate_with_ollama(generated)
             IN  [returned |-> IF response # <<>> THEN _parse_response(response)
                               ELSE _generate_fallback_recommendations(analysis),
                  model |-> agent_model,
                  http |-> listed \o <<PostGenerate(used, prompt, generated)>>]

\* analyze_and_advise with the outcomes of its (up to) three exchanges:
\* what it returns, the agent's model afterwards, and the exchanges made
analyze_and_advise(agent_model, pd, analysis, running, listing, generated) ==
    LET ping == <<GetTags(5, running)>>
        listed == ping \o <<GetTags(10, listing)>>
        available_models == get_available_models(listing)
    IN  IF ~check_ollama_running(running)
        THEN [returned |-> _generate_fallback_recommendations(analysis),
              model |-> agent_model, http |-> ping]
        ELSE IF falsy(available_models)
        THEN [returned |-> _generate_fallback_recommendations(analysis),
              model |-> agent_model, http |-> listed]
        ELSE LET names == available_models.names
                 known == \E i \in 1..Len(names) : names[i] = agent_model
                 used == IF known THEN agent_model ELSE names[1]
                 prompt == _create_analysis_prompt(pd, analysis)
                 response == generate_with_ollama(generated)
             IN  [returned |-> IF response # <<>> THEN _parse_response(response)
                               ELSE _generate_fallback_recommendations(analysis),
                  model |-> used,
                  http |-> listed \o <<PostGenerate(used, prompt, generated)>>]

(***************************************************************************)
(* The agent on its own: a caller holds a PageData record and its analysis *)
(* and calls SEOAgent.analyze_and_advise; dropping the result, it can call *)
(* again on the same agent.                                                *)
(***************************************************************************)
MaxReply == 3       \* every reply over ReplyAlphabet up to this length is drawn

ReplyAlphabet == {"{", "}", "a"}
RECURSIVE Texts(_)
Texts(n) ==
    IF n = 0 THEN {<<>>}
    ELSE Texts(n - 1) \cup {Append(t, c) : t \in {u \in Texts(n - 1) : Len(u) = n - 1},
                                           c \in ReplyAlphabet}

ExampleReply ==
        <<"S", "u", "r", "e", "!", " ", "{", "\"", "s", "u", "m", "m", "a", "r", "y",
          "\"", ":", "\"", "x", "\"", ",", "\"", "r", "e", "c", "o", "m", "m", "e",
          "n", "d", "a", "t", "i", "o", "n", "s", "\"", ":", "[", "]", ",", "\"",
          "q", "u", "i", "c", "k", "_", "w", "i", "n", "s", "\"", ":", "[", "]", ",",
          "\"", "l", "o", "n", "g", "_", "t", "e", "r", "m", "_", "s", "t", "r", "a",
          "t", "e", "g", "i", "e", "s", "\"", ":", "[", "]", "}", " ", "D", "o", "n",
          "e", ".">>

ReplyInputs ==
    Texts(MaxReply)
        \cup {Repeat(<<"a">>, n) : n \in Near(300, 300)}
        \cup {ExampleReply,
              <<"{", "}", " ", "{", "}">>,
              <<"{", " ", "}", "\n">>,
              <<" ", "{", "\"", "a", "\"", ":", "\"", "x", "\"", ",", "}">>,
              <<"{", "\"", "a", "\"", ":", "\"", "\t", "\"", "}">>,
              <<"{", "\"", "a", "\"", ":", "{", "\"", "a", "\"", " ", ":", "[", "\"", "x", "\"",
                ",", " ", "{", "}", "]", "}", ",", "\"", "a", "\"", ":", "\"", "x", "\"", "}">>,
              <<"{", "[", "]", "}">>,
              <<"a", "{", "\"", "a", "\"", "}">>}

TagsOutcomes ==
    {Status(500), Raised("ConnectionError"), TagsOK(<<>>), TagsOK(<<"gemma3:latest">>),
     TagsOK(<<"llama3:8b">>), TagsOK(<<"llama3:8b", "gemma3:latest">>),
     TagsOK(<<"mistral:7b">>)}
GenerateOutcomes ==
    {Status(500), Raised("Timeout")} \cup {GenerateOK(t) : t \in ReplyInputs}

AgentPages ==
    {EmptyPage,
     Page(Rep("t", 55), Rep("d", 120), <<"w">>, [k \in {"h1"} |-> <<"a">>], <<>>, <<>>, 0),
     Page(Rep("t", 55), Rep("d", 120), Repeat(<<"w", ".", " ">>, 300), [k \in Levels |-> <<"a">>],
          Images(1, 1), <<>>, 300),
     Page("", "No meta description", Repeat(<<"w", " ">>, 26), [k \in {"h3"} |-> <<"a">>],
          Images(0, 1), <<Link(<<>>, FALSE)>>, 301)}

\* analysis records of other callers than the application: the empty dict, a
\* dict without any category, and one with more than 3 issues under a key
AnalysisInputs ==
    {<<>>,
     [score |-> 50],
     [title_analysis |-> [issues |-> <<"i1", "i2", "i3", "i4">>],
      content_analysis |-> [word_count |-> 7, issues |-> <<"i5">>],
      technical_seo |-> [issues |-> <<"i6", "i7">>],
      score |-> 86]}

InitAgent ==
    /\ page_data \in AgentPages
    /\ seo_analysis \in {analyze_page(page_data)}
                          \cup (IF page_data = EmptyPage THEN AnalysisInputs ELSE {})
    /\ recommendations = None
    /\ chat_history = <<>>
    /\ analysis_complete = FALSE
    /\ model \in ModelNames
    /\ http = <<>>
    /\ run = None
    /\ DEFAULT_MODEL = "gemma3:latest"

AnalyzeAndAdvise(running, listing, generated) ==
    /\ recommendations = None
    /\ LET r == analyze_and_advise(model, page_data, seo_analysis, running, listing, generated)
       IN  /\ recommendations' = r.returned
           /\ model' = r.model
           /\ http' = r.http
    /\ UNCHANGED <<page_data, seo_analysis, chat_history, analysis_complete, run, DEFAULT_MODEL>>

\* the caller drops the result; the agent stays
DropResult ==
    /\ recommendations # None
    /\ recommendations' = None
    /\ http' = <<>>
    /\ UNCHANGED <<page_data, seo_analysis, chat_history, analysis_complete, model, run,
                   DEFAULT_MODEL>>

NextAgent ==
    \/ \E running \in TagsOutcomes, listing \in TagsOutcomes, generated \in GenerateOutcomes :
           AnalyzeAndAdvise(running, listing, generated)
    \/ DropResult

SpecAgent == InitAgent /\ [][NextAgent]_vars

(***************************************************************************)
(* The fetch collaborator (utils/web_scraper.py).  A response of           *)
(* session.get is an exception of requests, or a status with its reason,   *)
(* its content-type header, the time it took and the parsed document: what *)
(* BeautifulSoup's find and find_all give for the elements fetch_url asks  *)
(* for.  A URL is held by its parts.                                       *)
(***************************************************************************)
MAX_CONTENT_LENGTH == 10000
REQUEST_TIMEOUT == 30

Url(scheme, netloc, path) == [scheme |-> scheme, netloc |-> netloc, path |-> path]
UrlText(url) == url.scheme \o url.netloc \o url.path
\* the str of a sequence of characters
Str(chars) == Join(chars, 1, Len(chars))
\* w in s
contains(s, w) == \E i \in 1..Len(s) : OccursAt(s, w, i)

RequestException(name, text) == [exception |-> name, text |-> text]
Response(status, reason, content_type, elapsed, soup) ==
    [status |-> status, reason |-> reason, content_type |-> content_type,
     elapsed |-> elapsed, soup |-> soup]
KeyError == [raised |-> "KeyError"]
\* tag[key] raises KeyError: the element is there without the attribute
subscript_raises(tag, key) == tag # None /\ key \notin DOMAIN tag.attrs

_get_title(soup) ==
    IF soup.title # None THEN Str(strip(soup.title.text)) ELSE "No title found"

_get_meta_description(soup) ==
    IF soup.meta_description # None THEN Str(strip(soup.meta_description.attrs.content))
    ELSE "No meta description"

_get_meta_keywords(soup) ==
    IF soup.meta_keywords # None THEN Str(strip(soup.meta_keywords.attrs.content))
    ELSE "No meta keywords"

_get_headers(soup) ==
    [level \in Levels |-> [i \in 1..Len(soup.h[level]) |-> strip(soup.h[level][i])]]

\* get_text(separator=' ', strip=True) of main, article or body once the
\* script, style, nav, footer and header elements are removed: main_text holds
\* the strings left under that element, None without such an element
RECURSIVE JoinStripped(_, _)
JoinStripped(strings, k) ==
    IF k > Len(strings) THEN <<>>
    ELSE LET piece == strip(strings[k])
             rest == JoinStripped(strings, k + 1)
         IN  IF piece = <<>> THEN rest
             ELSE IF rest = <<>> THEN piece
             ELSE piece \o <<" ">> \o rest
_get_main_content(soup) ==
    IF soup.main_text # None THEN JoinStripped(soup.main_text.strings, 1) ELSE <<>>

\* urljoin(base_url, href) for an href with or without a host
urljoin(base_url, href) ==
    IF href.netloc = "" THEN Url(base_url.scheme, base_url.netloc, href.path) ELSE href

_is_internal_url(url, base_url) == base_url.netloc = url.netloc \/ url.netloc = ""

_get_links(soup, base_url) ==
    [i \in 1..Len(soup.a) |->
        LET full_url == urljoin(base_url, soup.a[i].href)
            text == strip(soup.a[i].text)
        IN  [text |-> SubSeq(text, 1, Min(100, Len(text))),
             url |-> full_url,
             is_internal |-> _is_internal_url(full_url, base_url)]]

_get_images(soup) ==
    [i \in 1..Len(soup.img) |->
        LET alt_text == Get(soup.img[i], "alt", <<>>)
        IN  [src |-> soup.img[i].src,
             alt |-> alt_text,
             has_alt |-> strip(alt_text) # <<>>]]

\* what fetch_url gives back: the pair it returns, or the exception it lets out
Returned(data, error) == [page_data |-> data, error |-> error]
ErrorMessage(text) == [message |-> text]
\* str(e) of the HTTPError of raise_for_status
http_error_text(url, res) ==
    ToString(res.status)
        \o (IF res.status < 500 THEN " Client Error: " ELSE " Server Error: ")
        \o res.reason \o " for url: " \o UrlText(url)

fetch_url(url, res) ==
    IF "exception" \in DOMAIN res
    THEN Returned(None, ErrorMessage("Error fetching URL: " \o res.text))
    ELSE IF res.status >= 400 /\ res.status < 600
    THEN Returned(None, ErrorMessage("Error fetching URL: " \o http_error_text(url, res)))
    ELSE IF ~contains(lower(res.content_type),
                      <<"t", "e", "x", "t", "/", "h", "t", "m", "l">>)
    THEN Returned(None, ErrorMessage("URL does not return HTML content"))
    ELSE IF subscript_raises(res.soup.meta_description, "content")
              \/ subscript_raises(res.soup.meta_keywords, "content")
    THEN KeyError
    ELSE LET content == _get_main_content(res.soup)
         IN  Returned([url |-> url,
                       title |-> _get_title(res.soup),
                       meta_description |-> _get_meta_description(res.soup),
                       meta_keywords |-> _get_meta_keywords(res.soup),
                       headers |-> _get_headers(res.soup),
                       content |-> SubSeq(content, 1, Min(MAX_CONTENT_LENGTH, Len(content))),
                       links |-> _get_links(res.soup, url),
                       images |-> _get_images(res.soup),
                       status_code |-> res.status,
                       response_time |-> res.elapsed],
                      None)

(***************************************************************************)
(* The application (app.py).  Every step is one run of the script for one  *)
(* event of the page: the sidebar is drawn first, which lists the models   *)
(* and settles the agent, then the widget that fired is handled; a handler *)
(* ending in st.rerun() goes through the sidebar once more.  The agent's   *)
(* conversation_history is [] from __init__ on (nothing appends to it) and *)
(* is left out of the state.                                               *)
(***************************************************************************)
MaxTurns == 2       \* chat turns between two clearings of the history

\* Python's None as the agent's model (DEFAULT_MODEL of an environment that
\* does not set it), kept a string so that it compares with the listed names
NoModel == "<None>"

Tag(text) == [text |-> text]
Meta(attrs) == [attrs |-> attrs]
Soup(title, description, keywords, h, main_text, a, img) ==
    [title |-> title, meta_description |-> description, meta_keywords |-> keywords,
     h |-> h, main_text |-> main_text, a |-> a, img |-> img]
NoHeadings == [level \in Levels |-> <<>>]

SoupInputs ==
    {\* a page with every element
     Soup(Tag(<<" ">> \o Repeat(<<"t">>, 55) \o <<"\n">>),
          Meta([name |-> "description", content |-> Repeat(<<"d">>, 120) \o <<" ">>]),
          Meta([name |-> "keywords", content |-> <<"s", "e", "o">>]),
          [level \in Levels |-> IF level = "h1" THEN <<<<" ", "H", "i">>>> ELSE <<>>],
          [strings |-> <<<<" ", "w", " ">>, <<"\n">>, <<"S", "E", "O">>>>],
          <<[href |-> Url("", "", "/a"), text |-> <<" ", "a", " ">>],
            [href |-> Url("https://", "other.org", "/"), text |-> <<>>]>>,
          <<[src |-> "i.png", alt |-> <<"x">>], [src |-> "j.png"]>>),
     \* a page with no element at all
     Soup(None, None, None, NoHeadings, None, <<>>, <<>>),
     \* an empty title element and an empty description
     Soup(Tag(<<>>), Meta([name |-> "description", content |-> <<>>]), None,
          NoHeadings, [strings |-> <<>>], <<>>, <<>>),
     \* a description element without content
     Soup(Tag(<<"t">>), Meta([name |-> "description"]), None,
          NoHeadings, [strings |-> <<<<"w">>>>], <<>>, <<>>)}

Html == <<"t", "e", "x", "t", "/", "h", "t", "m", "l">>
FetchOutcomes ==
    {RequestException("ConnectionError", "Connection refused"),
     RequestException("ReadTimeout",
                      "Read timed out. (read timeout=" \o ToString(REQUEST_TIMEOUT) \o ")"),
     Response(404, "Not Found", Html, 10, None),
     Response(200, "OK", <<"a", "p", "p", "l", "i", "c", "a", "t", "i", "o", "n", "/",
                           "p", "d", "f">>, 10, None)}
        \cup {Response(200, "OK", <<"T", "e", "x", "t", "/", "H", "T", "M", "L", ";", " ",
                                    "c", "h", "a", "r", "s", "e", "t", "=", "u", "t", "f",
                                    "-", "8">>, 301, soup) : soup \in SoupInputs}

\* what is typed into the URL field
NoUrl == Url("", "", "")
UrlInputs == {NoUrl, Url("", "example.com", "/"), Url("https://", "example.com", "/")}

\* what the sidebar's listing answers and which option the selectbox holds
Sidebar(listing, choice) == [listing |-> listing, choice |-> choice]
SidebarInputs ==
    {Sidebar(TagsOK(<<"llama3:8b", "gemma3:latest">>), 2),
     Sidebar(Status(500), 1)}

\* the outcomes of the three exchanges of analyze_and_advise
Advise(running, listing, generated) ==
    [running |-> running, listing |-> listing, generated |-> generated]
AdviseInputs ==
    {Advise(Raised("ConnectionError"), Status(500), Status(500)),
     Advise(TagsOK(<<>>), TagsOK(<<"llama3:8b">>), GenerateOK(ExampleReply))}

PromptInputs == {"How do I fix the title?"}
ChatInputs ==
    {Advise(Status(500), None, None),
     Advise(TagsOK(<<>>), None, GenerateOK(<<"o", "k">>))}

\* the model selection of the sidebar (app.py, main): the agent's model
\* afterwards and the exchange made
sidebar(agent_model, s) ==
    LET available_models == get_available_models(s.listing)
        selected == IF ~falsy(available_models) THEN available_models.names[s.choice]
                    ELSE DEFAULT_MODEL
    IN  [model |-> IF selected # agent_model THEN selected ELSE agent_model,
         http |-> <<GetTags(10, s.listing)>>,
         calls |-> <<"get_available_models">>]

\* a run: the event, the operations invoked in order, the response fetch_url
\* got and what it gave back (None without a fetch), the error displayed by
\* st.error or the exception that ended the run (None without one)
Ran(event, calls, response, fetched, error) ==
    [event |-> event, calls |-> calls, response |-> response, fetched |-> fetched,
     error |-> error]

\* analyze_website(url) with the agent's model: what it returns (or the
\* exception it lets out), the agent's model afterwards, the exchanges, the
\* operations invoked and the st.error shown
analyze_website(url, agent_model, res, o) ==
    LET fetched == fetch_url(url, res)
    IN  IF "raised" \in DOMAIN fetched
        THEN [raised |-> fetched.raised, model |-> agent_model, http |-> <<>>,
              calls |-> <<"fetch_url">>, fetched |-> fetched, error |-> None]
        ELSE IF fetched.error # None /\ fetched.error.message # ""
        THEN [returned |-> <<None, None, None>>, model |-> agent_model, http |-> <<>>,
              calls |-> <<"fetch_url">>, fetched |-> fetched,
              error |-> ErrorMessage("Error: " \o fetched.error.message)]
        ELSE LET analysis == analyze_page(fetched.page_data)
             IN  IF analysis = ZeroDivisionError
                 THEN [raised |-> "ZeroDivisionError", model |-> agent_model, http |-> <<>>,
                       calls |-> <<"fetch_url", "analyze_page">>, fetched |-> fetched,
                       error |-> None]
                 ELSE LET r == analyze_and_advise(agent_model, fetched.page_data, analysis,
                                                  o.running, o.listing, o.generated)
                      IN  [returned |-> <<fetched.page_data, analysis, r.returned>>,
                           model |-> r.model, http |-> r.http,
                           calls |-> <<"fetch_url", "analyze_page", "analyze_and_advise">>,
                           fetched |-> fetched, error |-> None]

\* _create_chat_context: the values interpolated into the context line
_create_chat_context(context) == [url |-> context.url, score |-> context.score]

\* context['main_issues'].extend(data['issues'][:2]) over the analysis
RECURSIVE main_issues(_, _)
main_issues(analysis, k) ==
    IF k > Len(analysis_keys) THEN <<>>
    ELSE (IF has_issues(analysis, analysis_keys[k])
          THEN LET issues == analysis[analysis_keys[k]].issues
               IN  SubSeq(issues, 1, Min(2, Len(issues)))
          ELSE <<>>) \o main_issues(analysis, k + 1)

\* the two fixed answers of SEOAgent.chat (the first without the grave accents
\* the code puts around the command: a TLA+ string cannot hold that character)
not_running == "Ollama is not running. Please start Ollama with: ollama serve"
no_response == "I apologize, but I couldn't generate a response at the moment."

\* SEOAgent.chat with the outcomes of its (up to) two exchanges
chat(agent_model, user_input, context, running, generated) ==
    IF ~check_ollama_running(running)
    THEN [returned |-> not_running,
          http |-> <<GetTags(5, running)>>]
    ELSE LET full_prompt == [context |-> _create_chat_context(context),
                             user_input |-> user_input]
             response == generate_with_ollama(generated)
         IN  [returned |-> IF response # <<>> THEN Str(response)
                           ELSE no_response,
              http |-> <<GetTags(5, running), PostGenerate(agent_model, full_prompt, generated)>>]

Message(role, content) == [role |-> role, content |-> content]

Init ==
    /\ page_data = None
    /\ seo_analysis = None
    /\ recommendations = None
    /\ chat_history = <<>>
    /\ analysis_complete = FALSE
    /\ model = "gemma3:latest"
    /\ http = <<>>
    /\ run = None
    /\ DEFAULT_MODEL \in {NoModel, "gemma3:latest"}

\* the Analyze Website button
AnalyzeRun(s, url, res, o, s2) ==
    LET side == sidebar(model, s)
    IN  IF url = NoUrl
        THEN /\ model' = side.model
             /\ http' = side.http
             /\ run' = Ran("analyze", side.calls, None, None, None)
             /\ UNCHANGED <<page_data, seo_analysis, recommendations, chat_history,
                            analysis_complete, DEFAULT_MODEL>>
        ELSE LET full == IF url.scheme # "http://" /\ url.scheme # "https://"
                         THEN Url("https://" \o url.scheme, url.netloc, url.path) ELSE url
             IN  \E w \in {analyze_website(full, side.model, res, o)} :
                 IF "raised" \in DOMAIN w
                 THEN /\ model' = w.model
                      /\ http' = side.http \o w.http
                      /\ run' = Ran("analyze", side.calls \o w.calls, res, w.fetched,
                                    [raised |-> w.raised])
                      /\ UNCHANGED <<page_data, seo_analysis, recommendations, chat_history,
                                     analysis_complete, DEFAULT_MODEL>>
                 ELSE IF w.returned[1] # None
                 THEN LET again == sidebar(w.model, s2)
                      IN  /\ page_data' = w.returned[1]
                          /\ seo_analysis' = w.returned[2]
                          /\ recommendations' = w.returned[3]
                          /\ analysis_complete' = TRUE
                          /\ chat_history' = <<>>
                          /\ model' = again.model
                          /\ http' = side.http \o w.http \o again.http
                          /\ run' = Ran("analyze",
                                        side.calls \o w.calls \o <<"clear_history">>
                                            \o again.calls,
                                        res, w.fetched, None)
                          /\ UNCHANGED DEFAULT_MODEL
                 ELSE /\ model' = w.model
                      /\ http' = side.http \o w.http
                      /\ run' = Ran("analyze", side.calls \o w.calls, res, w.fetched, w.error)
                      /\ UNCHANGED <<page_data, seo_analysis, recommendations, chat_history,
                                     analysis_complete, DEFAULT_MODEL>>

\* ChatRun keeping the answer only
ChatRun_answer_only(s, prompt, o) ==
    /\ analysis_complete /\ seo_analysis # None
    /\ Len(chat_history) < 2 * MaxTurns
    /\ LET side == sidebar(model, s)
           context == [url |-> IF page_data # None THEN page_data.url ELSE "",
                       score |-> IF seo_analysis # None THEN seo_analysis.score ELSE 0,
                       main_issues |-> IF seo_analysis # None
                                       THEN main_issues(seo_analysis, 1) ELSE <<>>]
           c == chat(side.model, prompt, context, o.running, o.generated)
       IN  /\ chat_history' = <<Message("assistant", c.returned)>>
           /\ model' = side.model
           /\ http' = side.http \o c.http
           /\ run' = Ran("chat", side.calls \o <<"chat">>, None, None, None)
    /\ UNCHANGED <<page_data, seo_analysis, recommendations, analysis_complete, DEFAULT_MODEL>>

\* a prompt entered in the chat tab, which is drawn once an analysis is there
ChatRun(s, prompt, o) ==
    /\ analysis_complete /\ seo_analysis # None
    /\ Len(chat_history) < 2 * MaxTurns
    /\ LET side == sidebar(model, s)
           context == [url |-> IF page_data # None THEN page_data.url ELSE "",
                       score |-> IF seo_analysis # None THEN seo_analysis.score ELSE 0,
                       main_issues |-> IF seo_analysis # None
                                       THEN main_issues(seo_analysis, 1) ELSE <<>>]
           c == chat(side.model, prompt, context, o.running, o.generated)
       IN  /\ chat_history' = chat_history \o <<Message("user", prompt)>>
                                  \o <<Message("assistant", c.returned)>>
           /\ model' = side.model
           /\ http' = side.http \o c.http
           /\ run' = Ran("chat", side.calls \o <<"chat">>, None, None, None)
    /\ UNCHANGED <<page_data, seo_analysis, recommendations, analysis_complete, DEFAULT_MODEL>>

\* the Clear Analysis button: the keys are deleted and set again by the rerun
ClearRun(s, s2) ==
    LET side == sidebar(model, s)
        again == sidebar(side.model, s2)
    IN  /\ page_data' = None
        /\ seo_analysis' = None
        /\ recommendations' = None
        /\ chat_history' = <<>>
        /\ analysis_complete' = FALSE
        /\ model' = again.model
        /\ http' = side.http \o again.http
        /\ run' = Ran("clear", side.calls \o <<"clear_history">> \o again.calls, None, None,
                      None)
        /\ UNCHANGED DEFAULT_MODEL

\* one of the example buttons of the welcome page
ExampleRun(s, s2) ==
    /\ ~(analysis_complete /\ seo_analysis # None)
    /\ LET side == sidebar(model, s)
           again == sidebar(side.model, s2)
       IN  /\ page_data' = None
           /\ seo_analysis' = None
           /\ recommendations' = None
           /\ analysis_complete' = FALSE
           /\ model' = again.model
           /\ http' = side.http \o again.http
           /\ run' = Ran("example", side.calls \o again.calls, None, None, None)
    /\ UNCHANGED <<chat_history, DEFAULT_MODEL>>

\* any other event of the page (typing the URL, choosing a model, Export
\* Report): the sidebar only
Render(s) ==
    LET side == sidebar(model, s)
    IN  /\ model' = side.model
        /\ http' = side.http
        /\ run' = Ran("render", side.calls, None, None, None)
        /\ UNCHANGED <<page_data, seo_analysis, recommendations, chat_history,
                       analysis_complete, DEFAULT_MODEL>>

\* fetch_url gives a PageData for the response
Fetches(res) ==
    LET fetched == fetch_url(NoUrl, res)
    IN  "page_data" \in DOMAIN fetched /\ fetched.page_data # None
\* the inputs of a run of the Analyze Website button, in the order sidebar,
\* URL, response, outcomes of the agent, sidebar of the rerun; those a run
\* does not come to read (without a URL, without a page) are drawn once
AnalyzeInputs ==
    LET res0 == CHOOSE res \in FetchOutcomes : TRUE
        o0 == CHOOSE o \in AdviseInputs : TRUE
        s0 == CHOOSE s \in SidebarInputs : TRUE
    IN  {<<s, NoUrl, res0, o0, s0>> : s \in SidebarInputs}
            \cup {<<s, url, res, o0, s0>> :
                      s \in SidebarInputs, url \in UrlInputs \ {NoUrl},
                      res \in {r \in FetchOutcomes : ~Fetches(r)}}
            \cup {<<s, url, res, o, s2>> :
                      s \in SidebarInputs, url \in UrlInputs \ {NoUrl},
                      res \in {r \in FetchOutcomes : Fetches(r)},
                      o \in AdviseInputs, s2 \in SidebarInputs}

Next ==
    \/ \E i \in AnalyzeInputs : AnalyzeRun(i[1], i[2], i[3], i[4], i[5])
    \/ \E s \in SidebarInputs, prompt \in PromptInputs, o \in ChatInputs : ChatRun(s, prompt, o)
    \/ \E s \in SidebarInputs, s2 \in SidebarInputs : ClearRun(s, s2)
    \/ \E s \in SidebarInputs, s2 \in SidebarInputs : ExampleRun(s, s2)
    \/ \E s \in SidebarInputs : Render(s)

Spec == Init /\ [][Next]_vars

(***************************************************************************)
(* Properties of the analyzer.                                             *)
(***************************************************************************)
Analyzed == seo_analysis # None
Produced == Analyzed /\ seo_analysis # ZeroDivisionError

Clamp(x) == IF x < 0 THEN 0 ELSE IF x > 100 THEN 100 ELSE x
Has(issues, text) == \E i \in 1..Len(issues) : issues[i] = text
Times(issues, text) == Cardinality({i \in 1..Len(issues) : issues[i] = text})
IssueTotal(a) ==
    Len(a.title_analysis.issues) + Len(a.meta_description_analysis.issues)
        + Len(a.content_analysis.issues) + Len(a.header_analysis.issues)
        + Len(a.image_analysis.issues) + Len(a.link_analysis.issues)
        + Len(a.technical_seo.issues)
\* the whitespace-delimited tokens of a text, counted by where they end
TokenCount(s) ==
    Cardinality({i \in 1..Len(s) :
                    s[i] \notin Whitespace /\ (i = Len(s) \/ s[i + 1] \in Whitespace)})
WithAlt(images) == Cardinality({i \in 1..Len(images) : images[i].has_alt})

\* C1: the score analyze_page returns is an integer between 0 and 100.
C1_ScoreInRange ==
    Produced => seo_analysis.score \in 0..100

\* a page without any issue and with both bonuses: 110 before the clamp
C1_Witness ==
    /\ Produced
    /\ IssueTotal(seo_analysis) = 0
    /\ TokenCount(page_data.content) >= 300
    /\ Len(page_data.images) > 0 /\ WithAlt(page_data.images) = Len(page_data.images)
    /\ seo_analysis.score = 100

\* C2: the score is 100 minus 2 for every issue of the seven categories, plus 5
\* when content.word_count >= 300, plus 5 when image.alt_percentage >= 90,
\* clamped to 0..100.
C2_ScoreFormula ==
    Produced =>
        seo_analysis.score =
            Clamp(100 - 2 * IssueTotal(seo_analysis)
                    + (IF seo_analysis.content_analysis.word_count >= 300 THEN 5 ELSE 0)
                    + (IF seo_analysis.image_analysis.alt_percentage >= 900 THEN 5 ELSE 0))

\* issues in every category and one bonus, nothing clamped
C2_Witness ==
    /\ Produced
    /\ \A k \in 1..Len(scored_categories) : Len(seo_analysis[scored_categories[k]].issues) > 0
    /\ seo_analysis.content_analysis.word_count >= 300
    /\ seo_analysis.score = 100 - 2 * IssueTotal(seo_analysis) + 5

\* C3: analyze_page never fails; no division of it has a zero divisor.
C3_NoFailure ==
    Analyzed => seo_analysis # ZeroDivisionError

\* whitespace-only content, no images, no links, no headers
C3_Witness ==
    /\ Produced
    /\ Len(page_data.content) > 0 /\ TokenCount(page_data.content) = 0
    /\ page_data.images = <<>> /\ page_data.links = <<>> /\ DOMAIN page_data.headers = {}

\* C4: title of length L: optimal iff 50 <= L <= 60; one 'too short' issue iff
\* L < 50, one 'too long' issue iff L > 60; 'Missing title tag' iff the title is
\* empty; an empty title has exactly the two issues, 50 <= L <= 60 has none.
C4_Title ==
    Produced =>
        LET L == Len(page_data.title)
            ta == seo_analysis.title_analysis
            short == "Title too short (" \o ToString(L) \o " chars). Aim for 50-60 characters."
            long == "Title too long (" \o ToString(L) \o " chars). Aim for 50-60 characters."
        IN  /\ ta.optimal <=> (50 <= L /\ L <= 60)
            /\ Times(ta.issues, short) = (IF L < 50 THEN 1 ELSE 0)
            /\ Times(ta.issues, long) = (IF L > 60 THEN 1 ELSE 0)
            /\ Times(ta.issues, "Missing title tag") = (IF page_data.title = "" THEN 1 ELSE 0)
            /\ page_data.title = "" => ta.issues = <<short, "Missing title tag">>
            /\ (50 <= L /\ L <= 60) => ta.issues = <<>>
            /\ Len(ta.issues) =
                   Times(ta.issues, short) + Times(ta.issues, long)
                       + Times(ta.issues, "Missing title tag")

C4_Witness ==
    /\ Produced
    /\ Len(page_data.title) = 50
    /\ seo_analysis.title_analysis.optimal
    /\ seo_analysis.title_analysis.issues = <<>>

\* C5: description of length L: optimal iff 120 <= L <= 160; 'too short' iff
\* L < 120, 'too long' iff L > 160; 'Missing meta description' iff the string is
\* empty or the sentinel, and then 'too short' is present too, two issues in all.
C5_MetaDescription ==
    Produced =>
        LET L == Len(page_data.meta_description)
            ma == seo_analysis.meta_description_analysis
            short == "Description too short (" \o ToString(L)
                         \o " chars). Aim for 120-160 characters."
            long == "Description too long (" \o ToString(L)
                        \o " chars). Aim for 120-160 characters."
            absent == page_data.meta_description \in {"", "No meta description"}
        IN  /\ ma.optimal <=> (120 <= L /\ L <= 160)
            /\ Times(ma.issues, short) = (IF L < 120 THEN 1 ELSE 0)
            /\ Times(ma.issues, long) = (IF L > 160 THEN 1 ELSE 0)
            /\ Times(ma.issues, "Missing meta description") = (IF absent THEN 1 ELSE 0)
            /\ absent => ma.issues = <<short, "Missing meta description">>

C5_Witness ==
    /\ Produced
    /\ page_data.meta_description = "No meta description"
    /\ Len(seo_analysis.meta_description_analysis.issues) = 2

\* C6: content of W words: the 'Content too short' issue is present iff W < 300
\* and the +5 word-count bonus is in the score iff W >= 300, never both and
\* never neither.
C6_ContentThreshold ==
    Produced =>
        LET W == TokenCount(page_data.content)
            ca == seo_analysis.content_analysis
            short == "Content too short (" \o ToString(W)
                         \o " words). Aim for at least 300 words."
            imageBonus == IF seo_analysis.image_analysis.alt_percentage >= 900 THEN 5 ELSE 0
        IN  /\ Has(ca.issues, short) <=> W < 300
            /\ seo_analysis.score =
                   Clamp(100 - 2 * IssueTotal(seo_analysis) + imageBonus
                           + (IF W >= 300 THEN 5 ELSE 0))
            /\ (content_bonus(seo_analysis) = 5) <=> ~Has(ca.issues, short)

\* exactly 300 words, the bonus visible in an unclamped score
C6_Witness ==
    /\ Produced
    /\ TokenCount(page_data.content) = 300
    /\ seo_analysis.content_analysis.issues = <<>>
    /\ IssueTotal(seo_analysis) >= 3
    /\ seo_analysis.score = 100 - 2 * IssueTotal(seo_analysis) + 5

\* C7: structure has exactly the keys h1..h6 with the count of each level;
\* 'Missing H1' iff no h1, 'Multiple H1 tags' iff more than one, never both;
\* 'Header hierarchy issue' iff no h1 and some h2..h6 heading.
C7_Headers ==
    Produced =>
        LET hs == page_data.headers
            ha == seo_analysis.header_analysis
            n(k) == IF k \in DOMAIN hs THEN Len(hs[k]) ELSE 0
            multiple == "Multiple H1 tags found (" \o ToString(n("h1")) \o ")"
            hierarchy == "Header hierarchy issue: Using H2+ without H1"
        IN  /\ DOMAIN ha.structure = Levels
            /\ \A k \in Levels : ha.structure[k] = n(k)
            /\ Has(ha.issues, "Missing H1 tag") <=> n("h1") = 0
            /\ Has(ha.issues, multiple) <=> n("h1") > 1
            /\ ~(Has(ha.issues, "Missing H1 tag") /\ Has(ha.issues, multiple))
            /\ Has(ha.issues, hierarchy) <=> (n("h1") = 0 /\ \E k \in Levels \ {"h1"} : n(k) > 0)
            /\ Has(ha.issues, hierarchy) => Has(ha.issues, "Missing H1 tag")
            /\ Len(ha.issues) <= 2

\* no h1 and one h3: both issues
C7_Witness ==
    /\ Produced
    /\ page_data.headers = [k \in {"h3"} |-> <<"a">>]
    /\ seo_analysis.header_analysis.issues =
           <<"Missing H1 tag", "Header hierarchy issue: Using H2+ without H1">>

\* C8: without images alt_percentage is 0, there is no image issue and no
\* alt-text bonus in the score; with images the 'only X% have alt text' issue is
\* present iff images_with_alt / total_images * 100 < 90.
C8_Images ==
    Produced =>
        LET total == Len(page_data.images)
            ia == seo_analysis.image_analysis
            contentBonus == IF TokenCount(page_data.content) >= 300 THEN 5 ELSE 0
        IN  /\ total = 0 =>
                /\ ia.alt_percentage = 0
                /\ ia.issues = <<>>
                /\ image_bonus(seo_analysis) = 0
                /\ seo_analysis.score =
                       Clamp(100 - 2 * IssueTotal(seo_analysis) + contentBonus)
            /\ total > 0 =>
                /\ Len(ia.issues) = (IF WithAlt(page_data.images) * 100 < 90 * total THEN 1 ELSE 0)
                /\ \A i \in 1..Len(ia.issues) :
                       ia.issues[i] = "Only " \o fmt1(ia.alt_percentage)
                                          \o "% of images have alt text"

\* no images on a page that has issues: nothing added to the score
C8_Witness ==
    /\ Produced
    /\ page_data.images = <<>>
    /\ IssueTotal(seo_analysis) > 0
    /\ seo_analysis.score = 100 - 2 * IssueTotal(seo_analysis)

(***************************************************************************)
(* Properties of the agent.                                                *)
(***************************************************************************)
Advised == recommendations # None
Generates == {i \in 1..Len(http) : http[i].request = "POST /api/generate"}
\* the check_ollama_running exchange failed
Unreachable == Len(http) >= 1 /\ ~IsOK(http[1].result)
\* the get_available_models exchange failed or listed nothing
NothingListed ==
    /\ Len(http) >= 2
    /\ http[2].request = "GET /api/tags"
    /\ (IsOK(http[2].result) => http[2].result.models = <<>>)
\* the generate exchange gave no text
NothingGenerated ==
    \E i \in Generates : IsOK(http[i].result) => http[i].result.response = <<>>
\* the generate exchange gave a text
Replied == \E i \in Generates : IsOK(http[i].result) /\ http[i].result.response # <<>>
Reply == http[CHOOSE i \in Generates : TRUE].result.response

\* C9: when the backend is unreachable, lists no model or generates nothing,
\* analyze_and_advise returns the fallback generator's record for the given
\* analysis; it calls the generate endpoint at most once, and not at all when
\* the backend is unreachable or lists no model.
C9_FallbackNoRetry ==
    Advised =>
        /\ Cardinality(Generates) <= 1
        /\ (Unreachable \/ NothingListed) => Generates = {}
        /\ (Unreachable \/ NothingListed \/ NothingGenerated) =>
               recommendations = _generate_fallback_recommendations(seo_analysis)

\* a listed model, one generate call that times out, the issues of the
\* analysis in the returned record
C9_Witness ==
    /\ Advised
    /\ Cardinality(Generates) = 1
    /\ \E i \in Generates : http[i].result = Raised("Timeout")
    /\ Len(recommendations.recommendations) = 5
    /\ recommendations.recommendations[1].title = "Address Issue 1"

NoBraces(text) ==
    ~\E i \in 1..Len(text), j \in 1..Len(text) : i < j /\ text[i] = "{" /\ text[j] = "}"
\* the text from its first "{" to its last "}"
Braced(text) ==
    SubSeq(text, First({i \in 1..Len(text) : text[i] = "{"}),
           Last({i \in 1..Len(text) : text[i] = "}"}))
Degenerate(text) ==
    /\ recommendations.summary = Join(text, 1, IF Len(text) < 300 THEN Len(text) ELSE 300)
    /\ Len(recommendations.recommendations) = 1
    /\ recommendations.recommendations[1].title = "Review Analysis"
    /\ recommendations.quick_wins = <<"Check meta tags", "Review content">>

\* C10 as stated: a non-empty reply without a brace-delimited substring, or
\* whose matched substring is not JSON, gives the degenerate record: the first
\* 300 characters as summary, one generic recommendation, two quick wins.
C10_AsStated ==
    (Advised /\ Replied) =>
        ((NoBraces(Reply) \/ ~json_loads(Braced(Reply)).ok) => Degenerate(Reply))

\* C10 (amended): a non-empty reply without a brace-delimited substring gives
\* the degenerate record (first 300 characters as summary, one generic
\* recommendation, two quick wins); a reply whose matched substring is not JSON
\* gives the fallback generator's record for an empty analysis (its fixed
\* summary, the 3 default recommendations, 3 quick wins).
C10_ParseFailure ==
    (Advised /\ Replied) =>
        /\ NoBraces(Reply) => Degenerate(Reply)
        /\ (~NoBraces(Reply) /\ ~json_loads(Braced(Reply)).ok) =>
               /\ recommendations.summary =
                      "Based on technical SEO analysis, here are the key recommendations for improvement."
               /\ recommendations.recommendations = default_recommendations
               /\ Len(recommendations.quick_wins) = 3

\* a reply with braces around something that is not JSON
C10_Witness ==
    /\ Advised /\ Replied
    /\ Reply = <<"a", "{", "\"", "a", "\"", "}">>
    /\ Len(recommendations.recommendations) = 3

(***************************************************************************)
(* The lowest score.                                                       *)
(***************************************************************************)
\* C20: the categories hold at most 2 (title), 2 (meta description), 2
\* (content), 2 (header), 1 (image), 2 (link) and 1 (technical) issues, 12 in
\* total, so the score is at least 76 and the clamp at 0 is never reached.
C20_ScoreFloor ==
    Produced =>
        /\ Len(seo_analysis.title_analysis.issues) <= 2
        /\ Len(seo_analysis.meta_description_analysis.issues) <= 2
        /\ Len(seo_analysis.content_analysis.issues) <= 2
        /\ Len(seo_analysis.header_analysis.issues) <= 2
        /\ Len(seo_analysis.image_analysis.issues) <= 1
        /\ Len(seo_analysis.link_analysis.issues) <= 2
        /\ Len(seo_analysis.technical_seo.issues) <= 1
        /\ IssueTotal(seo_analysis) <= 12
        /\ seo_analysis.score >= 76
        /\ 100 - 2 * IssueTotal(seo_analysis) > 0

\* a page with the most issues of every category and no bonus
C20_Witness ==
    /\ Produced
    /\ IssueTotal(seo_analysis) = 12
    /\ Len(seo_analysis.technical_seo.issues) = 1
    /\ seo_analysis.score = 76

(***************************************************************************)
(* The alt-text issue and the alt-text bonus.                              *)
(***************************************************************************)
\* the 'only X% of images have alt text' issue is among the image issues
AltIssue ==
    \E i \in 1..Len(seo_analysis.image_analysis.issues) :
        seo_analysis.image_analysis.issues[i] =
            "Only " \o fmt1(seo_analysis.image_analysis.alt_percentage)
                \o "% of images have alt text"

\* C21 as stated: the 'only X% of images have alt text' issue and the +5
\* alt-text bonus are never both applied to one analysis: no image list has
\* an unrounded percentage below 90 whose value rounded to 1 decimal is at
\* least 90.
C21_AsStated ==
    Produced =>
        LET total == Len(page_data.images)
            with == WithAlt(page_data.images)
        IN  /\ ~(AltIssue /\ image_bonus(seo_analysis) = 5)
            /\ total > 0 =>
                   ~(with * 100 < 90 * total /\ round(with * 100, total, 10) >= 900)

\* no brace among text[lo..hi]
Prose(text, lo, hi) == \A k \in lo..hi : text[k] # "{" /\ text[k] # "}"
\* text is prose, then a JSON object at text[i..j], then prose
ObjectAt(text, i, j) ==
    /\ i < j /\ text[i] = "{" /\ text[j] = "}"
    /\ Prose(text, 1, i - 1) /\ Prose(text, j + 1, Len(text))
    /\ json_loads(SubSeq(text, i, j)).ok

\* C11: for a reply made of brace-free prose, one valid JSON object and
\* brace-free prose, the returned record is exactly the value of that object:
\* the same keys with the same values, whatever they are.
C11_EmbeddedObject ==
    (Advised /\ Replied) =>
        \A i \in 1..Len(Reply), j \in 1..Len(Reply) :
            ObjectAt(Reply, i, j) =>
                recommendations = json_loads(SubSeq(Reply, i, j)).val

\* the object with summary "x" and three empty lists between two pieces of prose
C11_Witness ==
    /\ Advised /\ Replied
    /\ Reply = ExampleReply
    /\ ObjectAt(Reply, 7, 84)
    /\ recommendations = [summary |-> "x", recommendations |-> <<>>,
                          quick_wins |-> <<>>, long_term_strategies |-> <<>>]

(***************************************************************************)
(* Properties of the fallback generator.                                   *)
(***************************************************************************)
\* the fallback generator ran on the analysis of the call
FellBack == Advised /\ (Unreachable \/ NothingListed \/ NothingGenerated)
\* the fallback generator ran on an empty dict after a JSONDecodeError
ParseFailed ==
    Advised /\ Replied /\ ~NoBraces(Reply) /\ ~json_loads(Braced(Reply)).ok
FallbackRan == FellBack \/ ParseFailed
FallbackInput == IF FellBack THEN seo_analysis ELSE <<>>

IssuesOf(a, category) ==
    IF category \in DOMAIN a /\ "issues" \in DOMAIN a[category]
    THEN a[category].issues ELSE <<>>
Take(s, n) == SubSeq(s, 1, IF Len(s) < n THEN Len(s) ELSE n)
Candidates(a) ==
    Take(IssuesOf(a, "title_analysis"), 3)
        \o Take(IssuesOf(a, "meta_description_analysis"), 3)
        \o Take(IssuesOf(a, "content_analysis"), 3)
        \o Take(IssuesOf(a, "header_analysis"), 3)
        \o Take(IssuesOf(a, "image_analysis"), 3)
        \o Take(IssuesOf(a, "link_analysis"), 3)
        \o Take(IssuesOf(a, "technical_seo"), 3)
AddressTitles ==
    <<"Address Issue 1", "Address Issue 2", "Address Issue 3", "Address Issue 4",
      "Address Issue 5">>

\* C12: when the analysis has an issue, the fallback generator's candidates
\* are the first 3 issues of each category in the order title, meta
\* description, content, header, image, link, technical; it recommends the
\* first min(5, n) of the n candidates, the i-th titled 'Address Issue i' with
\* the issue text as description, priority high for i <= 2, medium for i in
\* {3, 4} and low for i = 5; never more than 5.
C12_IssueRecommendations ==
    (FallbackRan /\ Candidates(FallbackInput) # <<>>) =>
        LET candidates == Candidates(FallbackInput)
            recs == recommendations.recommendations
        IN  /\ Len(recs) <= 5
            /\ Len(recs) = Len(Take(candidates, 5))
            /\ \A i \in 1..Len(recs) :
                   recs[i] = [title |-> AddressTitles[i],
                              description |-> candidates[i],
                              priority |-> IF i <= 2 THEN "high"
                                           ELSE IF i \in {3, 4} THEN "medium" ELSE "low"]

\* a key with 4 issues gives 3 candidates, 6 candidates give 5 recommendations,
\* the last one with priority low
C12_Witness ==
    /\ FellBack
    /\ Len(IssuesOf(seo_analysis, "title_analysis")) = 4
    /\ Len(Candidates(seo_analysis)) = 6
    /\ Len(recommendations.recommendations) = 5
    /\ recommendations.recommendations[4].description = "i5"
    /\ recommendations.recommendations[5].priority = "low"

\* C13: when no category of the analysis has an issue (the empty record
\* included), the fallback generator returns exactly 3 recommendations, on
\* the title tag, the meta description and the content length, each with a
\* priority among high, medium and low.
C13_DefaultRecommendations ==
    (FallbackRan /\ Candidates(FallbackInput) = <<>>) =>
        LET recs == recommendations.recommendations
        IN  /\ Len(recs) = 3
            /\ recs[1].title = "Optimize Title Tag"
            /\ recs[2].title = "Improve Meta Description"
            /\ recs[3].title = "Enhance Content"
            /\ recs[3].description =
                   "Aim for at least 300 words of quality, relevant content"
            /\ \A i \in 1..3 : recs[i].priority \in {"high", "medium", "low"}

\* the fallback generator given the empty record by a caller
C13_Witness ==
    /\ FellBack
    /\ seo_analysis = <<>>
    /\ Len(recommendations.recommendations) = 3
    /\ recommendations.recommendations[1].title = "Optimize Title Tag"

\* C14 as stated: the fallback generator's record has exactly 3 quick wins
\* and exactly 2 long-term strategies.
C14_AsStated ==
    FallbackRan =>
        /\ Len(recommendations.quick_wins) = 3
        /\ Len(recommendations.long_term_strategies) = 2

\* C14 (amended): whatever the analysis and its issues, the fallback
\* generator's record has the same 3 quick wins and the same 3 long-term
\* strategies.
C14_FixedLists ==
    FallbackRan =>
        /\ recommendations.quick_wins =
               <<"Fix meta tags if needed", "Add alt text to images without it",
                 "Ensure fast page loading">>
        /\ recommendations.long_term_strategies =
               <<"Regular content updates and optimization", "Build quality backlinks",
                 "Monitor SEO performance regularly">>

\* the fallback generator on an analysis with issues: 3 strategies
C14_Witness ==
    /\ FellBack
    /\ Candidates(seo_analysis) # <<>>
    /\ Len(recommendations.quick_wins) = 3
    /\ Len(recommendations.long_term_strategies) = 3

(***************************************************************************)
(* Properties of the agent's model.                                        *)
(***************************************************************************)
\* C15: a call of analyze_and_advise that finds the backend reachable and a
\* non-empty listing without the agent's model sets the agent's model to the
\* first listed name and sends the generate request with it; in every other
\* call (the model is listed, or the call falls back before that) and in
\* every other step the agent's model stays as it is, so a switch lasts for
\* the later calls; a generate request always carries the agent's model.
C15_ModelResolution ==
    [][LET advise == recommendations = None /\ recommendations' # None
           reachable == IsOK(http'[1].result)
           names == IF Len(http') >= 2 /\ IsOK(http'[2].result)
                    THEN http'[2].result.models ELSE <<>>
           listed == \E i \in 1..Len(names) : names[i] = model
           posts == {i \in 1..Len(http') : http'[i].request = "POST /api/generate"}
       IN  IF advise /\ reachable /\ names # <<>> /\ ~listed
           THEN /\ model' = names[1]
                /\ posts # {}
                /\ \A i \in posts : http'[i].model = names[1]
           ELSE /\ model' = model
                /\ advise => \A i \in posts : http'[i].model = model]_vars

\* the call has switched to the only listed model, which no agent starts with
C15_Witness ==
    /\ Advised
    /\ Len(http) = 3
    /\ http[2].result = TagsOK(<<"mistral:7b">>)
    /\ http[3].request = "POST /api/generate"
    /\ http[3].model = "mistral:7b"
    /\ model = "mistral:7b"

(***************************************************************************)
(* Properties of the application.                                          *)
(***************************************************************************)
\* the step is a run of the Analyze Website button that called fetch_url
Fetched == run' # None /\ run'.event = "analyze" /\ run'.fetched # None
Invoked(calls, name) == \E i \in 1..Len(calls) : calls[i] = name

\* C16: fetch_url returns a pair with exactly one component None, the
\* PageData on success and the error message otherwise; when the error is
\* not None the run invokes neither analyze_page nor analyze_and_advise and
\* leaves page_data, seo_analysis, recommendations and analysis_complete of
\* the session as they are.
C16_AsStated ==
    [][Fetched =>
           /\ "raised" \notin DOMAIN run'.fetched
           /\ (run'.fetched.page_data = None) # (run'.fetched.error = None)
           /\ run'.fetched.error # None =>
                  /\ ~Invoked(run'.calls, "analyze_page")
                  /\ ~Invoked(run'.calls, "analyze_and_advise")
                  /\ UNCHANGED <<page_data, seo_analysis, recommendations,
                                 analysis_complete>>]_vars

\* the run analysed the page fetch_url gave
FetchedPage ==
    /\ run # None /\ run.event = "analyze" /\ run.fetched # None
    /\ "page_data" \in DOMAIN run.fetched /\ run.fetched.page_data # None
    /\ seo_analysis # None

\* C17: the PageData of a page without a title element has the title "", for
\* which the analyzer reports 'Missing title tag'; the PageData of a page
\* without a description meta tag has the meta_description "No meta
\* description".
C17_AsStated ==
    FetchedPage =>
        /\ run.response.soup.title = None =>
               /\ page_data.title = ""
               /\ Has(seo_analysis.title_analysis.issues, "Missing title tag")
        /\ run.response.soup.meta_description = None =>
               page_data.meta_description = "No meta description"

\* C19: a chat turn appends a user message and then an assistant message to
\* the chat history and keeps the earlier entries; otherwise the history
\* changes only by becoming empty, in a run of Analyze Website that fetched
\* a page or of Clear Analysis; a run of Analyze Website that fetched none
\* leaves it as it is; the analysis stored is that of the page alone.
C19_ChatHistory ==
    [][LET fetched_page ==
               /\ run'.event = "analyze" /\ run'.fetched # None
               /\ "page_data" \in DOMAIN run'.fetched /\ run'.fetched.page_data # None
       IN  /\ run'.event = "chat" =>
                  /\ Len(chat_history') = Len(chat_history) + 2
                  /\ SubSeq(chat_history', 1, Len(chat_history)) = chat_history
                  /\ chat_history'[Len(chat_history) + 1].role = "user"
                  /\ chat_history'[Len(chat_history) + 2].role = "assistant"
           /\ (run'.event # "chat" /\ chat_history' # chat_history) =>
                  /\ chat_history' = <<>>
                  /\ run'.event = "clear" \/ fetched_page
           /\ (run'.event = "analyze" /\ ~fetched_page) => chat_history' = chat_history
           /\ fetched_page => seo_analysis' = analyze_page(page_data')]_vars

\* a second chat turn after a first one
C19_Witness ==
    /\ run # None /\ run.event = "chat"
    /\ Len(chat_history) = 4
    /\ chat_history[3] = Message("user", "How do I fix the title?")
    /\ chat_history[4] = Message("assistant", "ok")

====
